---- MODULE Spec2Model ----
(***************************************************************************)
(* A model of walsplit.py, the Walmart bill splitter: the receipt parser,  *)
(* the member list, the extra items, the unit cards, the Kanban tally and  *)
(* build_summary, driven by the user actions that make Streamlit run       *)
(* main() again.                                                           *)
(*                                                                         *)
(* Text is a sequence of one-character strings.  A number is a record      *)
(* [k, v]: k = "int" for a Python int, k = "float" for a float held in     *)
(* fixed point (v counts units of 1/Scale cent, every division rounds to   *)
(* the nearest unit), k = "inf" and k = "nan" for the two non-finite       *)
(* floats.                                                                 *)
(***************************************************************************)
EXTENDS Integers, Sequences, FiniteSets, TLC

\* ------------------------------------------------------------------ bounds

\* Fixed-point units per cent of a modelled float.
Scale == 1000
\* The members list is capped at this length.
MaxMembers == 2
\* The extra items list is capped at this length.
MaxExtras == 1

\* ------------------------------------------------------------------- text

Digits == {"0", "1", "2", "3", "4", "5", "6", "7", "8", "9"}

Lower == {"a", "b", "c", "d", "e", "f", "g", "h", "i", "j", "k", "l", "m",
          "n", "o", "p", "q", "r", "s", "t", "u", "v", "w", "x", "y", "z"}

Upper == {"A", "B", "C", "D", "E", "F", "G", "H", "I", "J", "K", "L", "M",
          "N", "O", "P", "Q", "R", "S", "T", "U", "V", "W", "X", "Y", "Z"}

\* The characters the regular expression class \s and str.strip() take.
Whitespace == {" ", "\t", "\n", "\r", "\f"}

Min(S) == CHOOSE x \in S : \A y \in S : x <= y

Max(S) == CHOOSE x \in S : \A y \in S : y <= x

\* text[i], or "" past either end.
At(text, i) == IF i \in 1..Len(text) THEN text[i] ELSE ""

\* The characters a..b of text, "" where text has none.
Slice(text, a, b) == [i \in 1..(b - a + 1) |-> At(text, a + i - 1)]

\* The first index >= i whose character is not in S (Len(text) + 1 if
\* none).
RECURSIVE SkipSet(_, _, _)
SkipSet(text, i, S) ==
    IF i <= Len(text) /\ text[i] \in S THEN SkipSet(text, i + 1, S) ELSE i

DigitValue(c) ==
    CASE c = "0" -> 0 [] c = "1" -> 1 [] c = "2" -> 2 [] c = "3" -> 3
      [] c = "4" -> 4 [] c = "5" -> 5 [] c = "6" -> 6 [] c = "7" -> 7
      [] c = "8" -> 8 [] c = "9" -> 9

DigitChar(d) ==
    CASE d = 0 -> "0" [] d = 1 -> "1" [] d = 2 -> "2" [] d = 3 -> "3"
      [] d = 4 -> "4" [] d = 5 -> "5" [] d = 6 -> "6" [] d = 7 -> "7"
      [] d = 8 -> "8" [] d = 9 -> "9"

\* int(s) of a string of decimal digits.
RECURSIVE int(_)
int(s) ==
    IF s = <<>> THEN 0
    ELSE 10 * int(SubSeq(s, 1, Len(s) - 1)) + DigitValue(s[Len(s)])

\* str(n) of a natural number.
RECURSIVE str(_)
str(n) ==
    IF n < 10 THEN <<DigitChar(n)>>
    ELSE str(n \div 10) \o <<DigitChar(n % 10)>>

\* s.strip(): leading and trailing whitespace removed.
strip(s) ==
    LET keep == {j \in 1..Len(s) : s[j] \notin Whitespace}
    IN  IF keep = {} THEN <<>> ELSE SubSeq(s, Min(keep), Max(keep))

\* s.split(sep)[0]: the part of s before the first sep.
SplitFirst(s, sep) ==
    LET hits == {j \in 1..Len(s) : s[j] = sep}
    IN  IF hits = {} THEN s ELSE SubSeq(s, 1, Min(hits) - 1)

\* ---------------------------------------------------------------- numbers

IntV(n) == [k |-> "int", v |-> n]
FloatV(u) == [k |-> "float", v |-> u]
Inf == [k |-> "inf", v |-> 0]
NaN == [k |-> "nan", v |-> 0]

\* Units of one dollar.
One == 100 * Scale

\* The units of a finite number.
Units(a) == IF a.k = "int" THEN a.v * One ELSE a.v

\* float(s) of the text d+.dd
float(s) ==
    LET dot == Min({j \in 1..Len(s) : s[j] = "."})
    IN  FloatV((int(SubSeq(s, 1, dot - 1)) * 100
                + int(SubSeq(s, dot + 1, Len(s)))) * Scale)

\* a / b of two finite numbers, b an int: pandas gives inf or nan for b = 0.
Div(a, b) ==
    IF b.v = 0 THEN (IF a.v = 0 THEN NaN ELSE Inf)
    ELSE FloatV((2 * Units(a) + b.v) \div (2 * b.v))

\* a * b, a an int.
Mul(a, b) ==
    CASE b.k = "int" -> IntV(a.v * b.v)
      [] b.k = "float" -> FloatV(a.v * b.v)
      [] b.k = "inf" -> IF a.v = 0 THEN NaN ELSE Inf
      [] b.k = "nan" -> NaN

\* a + b, neither a nan.
Add(a, b) ==
    IF a.k = "inf" \/ b.k = "inf" THEN Inf
    ELSE IF a.k = "int" /\ b.k = "int" THEN IntV(a.v + b.v)
    ELSE FloatV(Units(a) + Units(b))

\* Series.sum(): the nan cells are skipped, an empty sum is 0.
RECURSIVE SeriesSum(_)
SeriesSum(col) ==
    IF col = <<>> THEN IntV(0)
    ELSE IF Head(col).k = "nan" THEN SeriesSum(Tail(col))
    ELSE Add(Head(col), SeriesSum(Tail(col)))

\* The cents of a finite number as the format .2f rounds it (half to even).
Cents(a) ==
    LET u == Units(a)
        q == u \div Scale
        r == u % Scale
    IN  IF 2 * r > Scale \/ (2 * r = Scale /\ q % 2 = 1) THEN q + 1 ELSE q

\* f"{a:.2f}"
Format2f(a) ==
    IF a.k = "inf" THEN <<"i", "n", "f">>
    ELSE IF a.k = "nan" THEN <<"n", "a", "n">>
    ELSE LET c == Cents(a)
         IN  str(c \div 100) \o <<".", DigitChar((c % 100) \div 10),
                                  DigitChar(c % 10)>>

\* ------------------------------------------------------------ parse_receipt

\* The text of a PDF, a sequence of page texts (<<>> for a page without
\* text): every page's text followed by a newline.
RECURSIVE extract_text(_)
extract_text(pages) ==
    IF pages = <<>> THEN <<>>
    ELSE (IF Head(pages) # <<>> THEN Head(pages) \o <<"\n">> ELSE <<>>)
         \o extract_text(Tail(pages))

\* ([A-Z][a-z]{2,8} \d{1,2}, \d{4}) order  matched at s: the index of the
\* last character of the group, or 0.
DateAt(text, s) ==
    LET Year(d, y) ==
            IF /\ At(text, d) = ","
               /\ At(text, d + 1) = " "
               /\ y - (d + 2) >= 4
               /\ Slice(text, d + 6, d + 11) = <<" ", "o", "r", "d", "e", "r">>
            THEN d + 5 ELSE 0
        Day(m, d) ==
            IF /\ m - (s + 1) \in 2..8
               /\ At(text, m) = " "
               /\ d - (m + 1) \in 1..2
            THEN Year(d, SkipSet(text, d + 2, Digits)) ELSE 0
        Month(m) == Day(m, SkipSet(text, m + 1, Digits))
    IN  IF At(text, s) \in Upper THEN Month(SkipSet(text, s + 1, Lower))
        ELSE 0

DateNotFound ==
    <<"D", "a", "t", "e", " ", "N", "o", "t", " ", "F", "o", "u", "n", "d">>

\* re.search of the date pattern: the first match's group, or the sentinel.
OrderDate(text) ==
    LET Group(s) == SubSeq(text, s, DateAt(text, s))
        FirstDate(starts) ==
            IF starts = {} THEN DateNotFound ELSE Group(Min(starts))
    IN  FirstDate({s \in 1..Len(text) : DateAt(text, s) # 0})

\* What the rest of the item pattern gives where it does not match.
NoMatch == [ok |-> FALSE, qty |-> <<>>, total |-> <<>>, end |-> 0]

\* \s+Qty\s+(\d+)\s+\$?(\d+\.\d{2})  matched at e: whether it matches, the
\* two number groups and the index after the match.  Each step takes the
\* indices found so far: w1 and w2 end the two runs of whitespace, d2 the
\* quantity, w3 the whitespace after it, p0 starts the total and d3 ends
\* its digits before the point.
ItemTail(text, e) ==
    LET Cents2(w2, d2, p0, d3) ==
            IF /\ d3 > p0
               /\ At(text, d3) = "."
               /\ At(text, d3 + 1) \in Digits
               /\ At(text, d3 + 2) \in Digits
            THEN [ok |-> TRUE,
                  qty |-> Slice(text, w2, d2 - 1),
                  total |-> Slice(text, p0, d3 + 2),
                  end |-> d3 + 3]
            ELSE NoMatch
        Dollars(w2, d2, p0) == Cents2(w2, d2, p0, SkipSet(text, p0, Digits))
        Sign(w2, d2, w3) ==
            IF w3 > d2
            THEN Dollars(w2, d2, IF At(text, w3) = "$" THEN w3 + 1 ELSE w3)
            ELSE NoMatch
        Count(w2, d2) ==
            IF d2 > w2 THEN Sign(w2, d2, SkipSet(text, d2, Whitespace))
            ELSE NoMatch
        Word(w1, w2) ==
            IF /\ w1 > e
               /\ Slice(text, w1, w1 + 2) = <<"Q", "t", "y">>
               /\ w2 > w1 + 3
            THEN Count(w2, SkipSet(text, w2, Digits)) ELSE NoMatch
        Gap(w1) == Word(w1, SkipSet(text, w1 + 3, Whitespace))
    IN  Gap(SkipSet(text, e, Whitespace))

\* (.+?) from s: the ends e of a name s..e-1 without a newline that the
\* rest of the pattern follows.
ItemEnds(text, s) ==
    {e \in (s + 1)..Len(text) :
        /\ \A j \in s..(e - 1) : text[j] # "\n"
        /\ ItemTail(text, e).ok}

\* re.finditer from pos: the leftmost match, its shortest name, then on
\* from the match's end.
RECURSIVE finditer(_, _)
finditer(text, pos) ==
    LET Match(s, e, t) ==
            <<[item |-> SubSeq(text, s, e - 1), qty |-> t.qty,
               total |-> t.total]>> \o finditer(text, t.end)
        Shortest(s, e) == Match(s, e, ItemTail(text, e))
        Leftmost(s) == Shortest(s, Min(ItemEnds(text, s)))
        FirstMatch(starts) ==
            IF starts = {} THEN <<>> ELSE Leftmost(Min(starts))
    IN  FirstMatch({s \in pos..Len(text) : ItemEnds(text, s) # {}})

\* -------------------------------------------------------------- DataFrame

\* A DataFrame: n rows, indexed 0..n-1, and cols, a function from column
\* name to the column's cells (row i is cell i + 1).  A cell is a number or
\* [k |-> "str", v |-> text].
StrV(s) == [k |-> "str", v |-> s]

\* pd.DataFrame()
EmptyFrame == [n |-> 0, cols |-> <<>>]

ColItem == <<"i", "t", "e", "m">>
ColQty == <<"q", "t", "y">>
ColTotal == <<"t", "o", "t", "a", "l">>
ColUnitPrice == <<"u", "n", "i", "t", "_", "p", "r", "i", "c", "e">>

\* df.empty
IsEmpty(frame) == frame.n = 0 \/ DOMAIN frame.cols = {}

\* df[name] = col
SetCol(frame, name, col) == [frame EXCEPT !.cols = (name :> col) @@ frame.cols]

\* pd.DataFrame(rows) of a list of dicts with the keys item, qty, total and
\* perhaps unit_price.
FrameOfRows(rows) ==
    IF rows = <<>> THEN EmptyFrame
    ELSE [n |-> Len(rows),
          cols |-> [c \in {c0 \in {ColItem, ColQty, ColTotal, ColUnitPrice} :
                            \A i \in 1..Len(rows) :
                                c0 \in {ColItem, ColQty, ColTotal}
                                \/ "unit_price" \in DOMAIN rows[i]} |->
                    [i \in 1..Len(rows) |->
                        IF c = ColItem THEN rows[i].item
                        ELSE IF c = ColQty THEN rows[i].qty
                        ELSE IF c = ColTotal THEN rows[i].total
                        ELSE rows[i].unit_price]]]

\* pd.concat([a, b], ignore_index=True): the rows of a, then those of b,
\* renumbered; a column one frame lacks is filled with nan.
concat(a, b) ==
    [n |-> a.n + b.n,
     cols |-> [c \in DOMAIN a.cols \cup DOMAIN b.cols |->
                (IF c \in DOMAIN a.cols THEN a.cols[c]
                 ELSE [i \in 1..a.n |-> NaN])
                \o (IF c \in DOMAIN b.cols THEN b.cols[c]
                    ELSE [i \in 1..b.n |-> NaN])]]

\* The dicts of the regular expression's matches (line 30).
MatchRows(matches) ==
    [i \in 1..Len(matches) |->
        [item |-> StrV(strip(matches[i].item)),
         qty |-> IntV(int(matches[i].qty)),
         total |-> float(matches[i].total)]]

\* parse_receipt(pdf_file): the item table and the order date.
parse_receipt(pdf_file) ==
    LET Parsed(frame, date) ==
            IF IsEmpty(frame) \/ ColTotal \notin DOMAIN frame.cols
            THEN [df |-> EmptyFrame, order_date |-> date]
            ELSE [df |-> SetCol(frame, ColUnitPrice,
                            [i \in 1..frame.n |->
                                Div(frame.cols[ColTotal][i],
                                    frame.cols[ColQty][i])]),
                  order_date |-> date]
        Read(text) ==
            Parsed(FrameOfRows(MatchRows(finditer(text, 1))), OrderDate(text))
    IN  Read(extract_text(pdf_file))

\* ------------------------------------------------------------ build_summary

CostSuffix == <<"_", "c", "o", "s", "t">>

\* d.get(key, default)
get(d, key, default) == IF key \in DOMAIN d THEN d[key] ELSE default

\* The loop of lines 50-52: for each person a column of assigned quantities
\* named after the person, and a column of costs named person_cost.  A
\* column of that name already in the frame is replaced.  A row index the
\* assignments lack, or a frame without unit_price, raises KeyError.
RECURSIVE AddPersonColumns(_, _, _)
AddPersonColumns(assign_df, counts, people) ==
    IF people = <<>> THEN [ok |-> TRUE, df |-> assign_df]
    ELSE LET person == Head(people)
             qtys == [i \in 1..assign_df.n |->
                        IntV(get(counts[i - 1], person, 0))]
             with_qty == SetCol(assign_df, person, qtys)
             costs == [i \in 1..assign_df.n |->
                        Mul(with_qty.cols[person][i],
                            with_qty.cols[ColUnitPrice][i])]
         IN  IF \E i \in 0..(assign_df.n - 1) : i \notin DOMAIN counts
             THEN [ok |-> FALSE, df |-> assign_df]
             ELSE IF ColUnitPrice \notin DOMAIN with_qty.cols
             THEN [ok |-> FALSE, df |-> assign_df]
             ELSE AddPersonColumns(
                      SetCol(with_qty, person \o CostSuffix, costs),
                      counts, Tail(people))

\* cell > 0
Gt0(cell) == cell.k = "inf" \/ (cell.k \in {"int", "float"} /\ cell.v > 0)

\* f"{cell}" of an item cell: a text, or an int that replaced it.
Show(cell) == CASE cell.k = "str" -> cell.v [] cell.k = "int" -> str(cell.v)

\* The lines 62-65 of one person from row i on: one line per row whose
\* person column is positive.  int() of an infinite cell raises.
RECURSIVE ItemLines(_, _, _)
ItemLines(assign_df, person, i) ==
    IF i > assign_df.n THEN [ok |-> TRUE, text |-> <<>>]
    ELSE LET cell == assign_df.cols[person][i]
             rest == ItemLines(assign_df, person, i + 1)
             qty == IF cell.k = "int" THEN cell.v ELSE cell.v \div One
             cost == assign_df.cols[person \o CostSuffix][i]
         IN  IF ~Gt0(cell) THEN rest
             ELSE IF cell.k = "inf" THEN [ok |-> FALSE, text |-> <<>>]
             ELSE [ok |-> rest.ok,
                   text |-> str(qty) \o <<"x", " ">>
                            \o Show(assign_df.cols[ColItem][i])
                            \o <<" ", "-", " ", "$">> \o Format2f(cost)
                            \o <<"\n">> \o rest.text]

\* The loop of lines 58-66: each person's total, item lines and a blank line.
RECURSIVE PersonSections(_, _)
PersonSections(assign_df, people) ==
    IF people = <<>> THEN [ok |-> TRUE, text |-> <<>>]
    ELSE LET person == Head(people)
             total_cost == SeriesSum(assign_df.cols[person \o CostSuffix])
             lines == ItemLines(assign_df, person, 1)
             rest == PersonSections(assign_df, Tail(people))
         IN  [ok |-> lines.ok /\ rest.ok,
              text |-> person \o <<":", " ", "$">> \o Format2f(total_cost)
                       \o <<"\n">> \o lines.text \o <<"\n">> \o rest.text]

\* A faulty total: the table's total column summed in place of the persons'
\* cost columns.
TotalOfTable(assign_df, people) ==
    IF ColTotal \in DOMAIN assign_df.cols
    THEN SeriesSum(assign_df.cols[ColTotal]) ELSE IntV(0)

\* Line 69: the sum of every person's cost column, from the int 0.
RECURSIVE TotalAllocated(_, _)
TotalAllocated(assign_df, people) ==
    IF people = <<>> THEN IntV(0)
    ELSE Add(TotalAllocated(assign_df, SubSeq(people, 1, Len(people) - 1)),
             SeriesSum(assign_df.cols[people[Len(people)] \o CostSuffix]))

GrandTotalLabel ==
    <<"G", "r", "a", "n", "d", " ", "T", "o", "t", "a", "l", " ", "=", " ", "$">>

\* build_summary(df, assignments, people, order_date): ok and the summary
\* text, or not ok when the code raises.  The multiplication sign and the
\* dash of line 65 are written x and -.
build_summary(frame, counts, people, date) ==
    LET Output(assign_df, sections) ==
            IF ~sections.ok THEN [ok |-> FALSE, output |-> <<>>]
            ELSE [ok |-> TRUE,
                  output |-> date \o <<":", "\n", "\n">> \o sections.text
                             \o GrandTotalLabel
                             \o Format2f(TotalAllocated(assign_df, people))
                             \o <<"\n">>]
        Sections(cols) ==
            IF ~cols.ok THEN [ok |-> FALSE, output |-> <<>>]
            ELSE Output(cols.df, PersonSections(cols.df, people))
    IN  Sections(AddPersonColumns(frame, counts, people))

\* ------------------------------------------------------------------- inputs

\* The names typed into the member box.
TypedNames ==
    {<<>>, <<" ">>, <<"A", "l">>, <<" ", "A", "l", " ">>,
     <<"U", "n", "a", "s", "s", "i", "g", "n", "e", "d">>, ColUnitPrice}

\* The receipts uploaded, each a sequence of page texts: two items under an
\* order date, one item on a second page, an item of quantity 0, text
\* without items, and a page without text.
ReceiptTwo ==
    <<<<"O", "c", "t", " ", "5", ",", " ", "2", "0", "2", "3", " ", "o", "r",
        "d", "e", "r", "\n", "a", "b", " ", "Q", "t", "y", " ", "2", " ", "$",
        "1", ".", "0", "1", "\n", "c", " ", "Q", "t", "y", " ", "1", " ", "0",
        ".", "9", "9">>>>

ReceiptOne ==
    <<<<>>, <<"x", " ", " ", "Q", "t", "y", "\n", "1", " ", "$", "1", ".",
              "0", "0">>>>

ReceiptZero ==
    <<<<"z", " ", "Q", "t", "y", " ", "0", " ", "$", "1", ".", "5", "0">>>>

ReceiptNone == <<<<"Q", "t", "y", " ", "1", " ", "1", ".", "0", "0">>>>

ReceiptBlank == <<<<>>>>

Receipts == {ReceiptTwo, ReceiptOne, ReceiptZero, ReceiptNone, ReceiptBlank}

\* parse_receipt of every receipt: the parser reads nothing but the file, so
\* each run of main() on the same file gets the same result.
RECURSIVE ParseAll(_)
ParseAll(files) ==
    IF files = {} THEN <<>>
    ELSE LET pages == CHOOSE f \in files : TRUE
         IN  (pages :> parse_receipt(pages)) @@ ParseAll(files \ {pages})

parsed_receipts == ParseAll(Receipts)

\* What is typed into the extra item's fields: the name, the quantity and
\* the total in cents.
ExtraNames == {<<"T", "a", "x">>}
ExtraQtys == {0, 1}
ExtraCents == {0, 237}

\* min_value of the quantity field (line 126) and, in cents, of the total
\* field (line 127).
MinQty == 1
MinTotalCents == 1

\* --------------------------------------------------------------- add_member

\* A faulty add_member: the stripped name is appended without the test that
\* it is not a member yet.
add_member_unchecked(session_members, typed) ==
    LET name == strip(typed)
    IN  [members |-> IF name # <<>> THEN Append(session_members, name)
                     ELSE session_members,
         new_member |-> <<>>]

\* add_member(): the typed name, stripped, is appended unless it is empty
\* or already a member; the input box is cleared.
add_member(session_members, typed) ==
    LET name == strip(typed)
    IN  [members |-> IF name # <<>>
                        /\ \A i \in 1..Len(session_members) :
                               session_members[i] # name
                     THEN Append(session_members, name)
                     ELSE session_members,
         new_member |-> <<>>]

\* --------------------------------------------------------------------- main

Unassigned == <<"U", "n", "a", "s", "s", "i", "g", "n", "e", "d">>

\* int(cell) of a quantity cell.
IntOf(cell) == IF cell.k = "int" THEN cell.v ELSE cell.v \div One

\* A faulty expansion: the ordinals written from 1.
RECURSIVE CardsOfRowFromOne(_, _, _, _)
CardsOfRowFromOne(idx, item, qty, i) ==
    IF i >= qty THEN <<>>
    ELSE <<str(idx) \o <<"_">> \o str(i + 1) \o <<":", " ">> \o Show(item)>>
         \o CardsOfRowFromOne(idx, item, qty, i + 1)

\* The cards of row idx from ordinal i on (lines 151-152).
RECURSIVE CardsOfRow(_, _, _, _)
CardsOfRow(idx, item, qty, i) ==
    IF i >= qty THEN <<>>
    ELSE <<str(idx) \o <<"_">> \o str(i) \o <<":", " ">> \o Show(item)>>
         \o CardsOfRow(idx, item, qty, i + 1)

\* The unit cards of the rows idx.. of df (lines 149-152).
RECURSIVE CardsFrom(_, _)
CardsFrom(frame, idx) ==
    IF idx >= frame.n THEN <<>>
    ELSE CardsOfRow(idx, frame.cols[ColItem][idx + 1],
                    IntOf(frame.cols[ColQty][idx + 1]), 0)
         \o CardsFrom(frame, idx + 1)

\* Lines 156-159: an empty container per person, then Unassigned with
\* every card.
BuildContainers(people, cards) ==
    [i \in 1..Len(people) |-> [header |-> people[i], items |-> <<>>]]
    \o <<[header |-> Unassigned, items |-> cards]>>

\* '_'.join(people)
RECURSIVE join(_)
join(people) ==
    IF people = <<>> THEN <<>>
    ELSE IF Len(people) = 1 THEN people[1]
    ELSE people[1] \o <<"_">> \o join(Tail(people))

\* The key of the Kanban component (line 165).
KanbanKey(people, frame) ==
    <<"k", "a", "n", "b", "a", "n", "_">> \o join(people) \o <<"_">>
    \o str(frame.n)

\* The Kanban component before it is first drawn.
NoKanban == [key |-> <<>>, value |-> <<>>]

Range(f) == {f[i] : i \in DOMAIN f}

AllCards(value) == UNION {Range(value[k].items) : k \in DOMAIN value}

\* sort_items(containers, key=key): the component keeps the user's
\* placement while it is drawn under the same key with the same headers
\* and cards, and starts from the containers passed otherwise.
sort_items(containers, key, component) ==
    IF /\ component.key = key
       /\ Len(component.value) = Len(containers)
       /\ \A k \in DOMAIN containers :
              component.value[k].header = containers[k].header
       /\ AllCards(component.value) = AllCards(containers)
    THEN component.value
    ELSE containers

\* Lines 178-181: the cards of one container counted for its header.
RECURSIVE TallyCards(_, _, _)
TallyCards(counts, person, cards) ==
    IF cards = <<>> THEN counts
    ELSE LET idx == int(SplitFirst(SplitFirst(Head(cards), ":"), "_"))
         IN  TallyCards([counts EXCEPT ![idx][person] = @ + 1],
                        person, Tail(cards))

\* Lines 174-181: every container but those headed Unassigned is tallied.
RECURSIVE TallyContainers(_, _)
TallyContainers(counts, assigned_containers) ==
    IF assigned_containers = <<>> THEN counts
    ELSE LET container == Head(assigned_containers)
         IN  TallyContainers(
                 IF container.header = Unassigned THEN counts
                 ELSE TallyCards(counts, container.header,
                                 container.items),
                 Tail(assigned_containers))

\* Lines 173-181.
Tally(frame, people, assigned_containers) ==
    TallyContainers(
        [idx \in 0..(frame.n - 1) |-> [person \in Range(people) |-> 0]],
        assigned_containers)

NoFile == [present |-> FALSE, pages |-> <<>>]

NoSummary == [shown |-> FALSE, ok |-> TRUE, output |-> <<>>]

\* ------------------------------------------------------------------- state

VARIABLES
    members,        \* st.session_state.members
    new_member,     \* st.session_state.new_member, the member box
    extra_items,    \* st.session_state.extra_items
    uploaded_file,  \* the file uploader's file
    kanban,         \* the Kanban component: its key and containers
    stage,          \* where the last run of main() ended
    df,             \* the item table of the last run
    order_date,     \* the order date of the last run
    unit_cards,     \* the unit cards of the last run
    assignments,    \* the tally of the last run
    summary         \* the summary the last run showed

vars == <<members, new_member, extra_items, uploaded_file, kanban, stage, df,
          order_date, unit_cards, assignments, summary>>

\* A run of main() that returns before the item table is drawn.
Stopped(at, frame, date) ==
    /\ stage' = at
    /\ df' = frame
    /\ order_date' = date
    /\ unit_cards' = <<>>
    /\ kanban' = NoKanban
    /\ assignments' = <<>>
    /\ summary' = NoSummary

\* Lines 124-192 of main(): the extra items appended to the parsed table,
\* the unit cards, the Kanban, the tally and, if Compute Summary was the
\* button clicked, the summary.
DrawTable(parsed, people, session_extra_items, drawn, compute) ==
    \E table \in {IF session_extra_items # <<>>
                  THEN concat(parsed.df, FrameOfRows(session_extra_items))
                  ELSE parsed.df} :
    \E cards \in {CardsFrom(table, 0)} :
    \E assigned_containers \in
           {sort_items(BuildContainers(people, cards),
                       KanbanKey(people, table), drawn)} :
    \E tallied \in {Tally(table, people, assigned_containers)} :
        /\ df' = table
        /\ order_date' = parsed.order_date
        /\ unit_cards' = cards
        /\ kanban' = [key |-> KanbanKey(people, table),
                      value |-> assigned_containers]
        /\ assignments' = tallied
        /\ IF compute
           THEN \E built \in {build_summary(table, tallied, people,
                                            parsed.order_date)} :
                    /\ stage' = "summary"
                    /\ summary' = [shown |-> TRUE, ok |-> built.ok,
                                   output |-> built.output]
           ELSE /\ stage' = "kanban"
                /\ summary' = NoSummary

\* A faulty main(): the extra items are appended before the parsed table is
\* tested for emptiness.
main_extras_first(session_members, session_extra_items, file, drawn, compute) ==
    IF ~file.present THEN Stopped("no_file", EmptyFrame, <<>>)
    ELSE \E parsed \in {parsed_receipts[file.pages]} :
         \E joined \in {[df |-> IF session_extra_items # <<>>
                                 THEN concat(parsed.df,
                                             FrameOfRows(session_extra_items))
                                 ELSE parsed.df,
                          order_date |-> parsed.order_date]} :
             IF IsEmpty(joined.df)
             THEN Stopped("no_items", joined.df, joined.order_date)
             ELSE IF session_members = <<>>
             THEN Stopped("no_members", joined.df, joined.order_date)
             ELSE DrawTable(joined, session_members, <<>>, drawn, compute)

\* One run of main() (lines 108-192) from the session state, the uploaded
\* file, the Kanban component as it was last drawn, and whether Compute
\* Summary was the button clicked: the stage it ends at and what it
\* computed on the way.
main(session_members, session_extra_items, file, drawn, compute) ==
    IF ~file.present THEN Stopped("no_file", EmptyFrame, <<>>)
    ELSE \E parsed \in {parsed_receipts[file.pages]} :
             IF IsEmpty(parsed.df)
             THEN Stopped("no_items", parsed.df, parsed.order_date)
             ELSE IF session_members = <<>>
             THEN Stopped("no_members", parsed.df, parsed.order_date)
             ELSE DrawTable(parsed, session_members, session_extra_items,
                            drawn, compute)

\* The first run of a session: no members, no extra items, no file.
Init ==
    /\ members = <<>>
    /\ new_member = <<>>
    /\ extra_items = <<>>
    /\ uploaded_file = NoFile
    /\ kanban = NoKanban
    /\ stage = "no_file"
    /\ df = EmptyFrame
    /\ order_date = <<>>
    /\ unit_cards = <<>>
    /\ assignments = <<>>
    /\ summary = NoSummary

\* A name is typed into the member box and entered: on_change=add_member
\* (line 96), then the script runs.
EnterMemberName(typed) ==
    LET added == add_member(members, typed)
    IN  /\ typed # new_member
        /\ Len(added.members) <= MaxMembers
        /\ members' = added.members
        /\ new_member' = added.new_member
        /\ UNCHANGED <<extra_items, uploaded_file>>
        /\ main(added.members, extra_items, uploaded_file, kanban, FALSE)

\* The Add member button (lines 98-99) on what the box holds.
ClickAddMember ==
    LET added == add_member(members, new_member)
    IN  /\ Len(added.members) <= MaxMembers
        /\ members' = added.members
        /\ new_member' = added.new_member
        /\ UNCHANGED <<extra_items, uploaded_file>>
        /\ main(added.members, extra_items, uploaded_file, kanban, FALSE)

\* A receipt is uploaded, in place of the one there if any (line 109).
UploadFile(pages) ==
    LET file == [present |-> TRUE, pages |-> pages]
    IN  /\ uploaded_file # file
        /\ uploaded_file' = file
        /\ UNCHANGED <<members, new_member, extra_items>>
        /\ main(members, extra_items, file, kanban, FALSE)

\* The uploaded receipt is removed.
RemoveFile ==
    /\ uploaded_file.present
    /\ uploaded_file' = NoFile
    /\ UNCHANGED <<members, new_member, extra_items>>
    /\ main(members, extra_items, NoFile, kanban, FALSE)

\* The Add Extra Item button (lines 129-138), drawn once the table is: the
\* number fields hold no value under their min_value; the row is appended
\* and st.rerun() runs the script again.
ClickAddExtraItem(name, qty, cents) ==
    LET new_row == [item |-> StrV(name), qty |-> IntV(qty),
                    total |-> FloatV(cents * Scale),
                    unit_price |-> Div(FloatV(cents * Scale), IntV(qty))]
        extended == Append(extra_items, new_row)
    IN  /\ stage \in {"kanban", "summary"}
        /\ qty >= MinQty
        /\ cents >= MinTotalCents
        /\ Len(extra_items) < MaxExtras
        /\ extra_items' = extended
        /\ UNCHANGED <<members, new_member, uploaded_file>>
        /\ main(members, extended, uploaded_file, kanban, FALSE)

\* The cards among cards that container k holds once card is in container
\* to, in the order of cards.
RECURSIVE ItemsAfterMove(_, _, _, _, _)
ItemsAfterMove(cards, held, card, k, to) ==
    IF cards = <<>> THEN <<>>
    ELSE (IF (Head(cards) = card /\ k = to)
             \/ (Head(cards) # card /\ Head(cards) \in held)
          THEN <<Head(cards)>> ELSE <<>>)
         \o ItemsAfterMove(Tail(cards), held, card, k, to)

\* The containers with card moved into container to.
MoveCard(value, cards, card, to) ==
    [k \in 1..Len(value) |->
        [header |-> value[k].header,
         items |-> ItemsAfterMove(cards, Range(value[k].items), card, k,
                                  to)]]

\* A card is dragged into another container of the Kanban (line 162).
DragCard(card, to) ==
    LET moved == [key |-> kanban.key,
                  value |-> MoveCard(kanban.value, unit_cards, card, to)]
    IN  /\ stage \in {"kanban", "summary"}
        /\ card \notin Range(kanban.value[to].items)
        /\ UNCHANGED <<members, new_member, extra_items, uploaded_file>>
        /\ main(members, extra_items, uploaded_file, moved, FALSE)

\* The Compute Summary button (lines 183-192).
ClickComputeSummary ==
    /\ stage \in {"kanban", "summary"}
    /\ UNCHANGED <<members, new_member, extra_items, uploaded_file>>
    /\ main(members, extra_items, uploaded_file, kanban, TRUE)

Next ==
    \/ \E typed \in TypedNames : EnterMemberName(typed)
    \/ ClickAddMember
    \/ \E pages \in Receipts : UploadFile(pages)
    \/ RemoveFile
    \/ \E name \in ExtraNames, qty \in ExtraQtys, cents \in ExtraCents :
           ClickAddExtraItem(name, qty, cents)
    \/ \E card \in Range(unit_cards), to \in DOMAIN kanban.value :
           DragCard(card, to)
    \/ ClickComputeSummary

Spec == Init /\ [][Next]_vars

\* ------------------------------------------------- build_summary on its own

\* The tables build_summary is called with: no rows, the parsed receipts, a
\* parsed receipt with an extra item, and a table without unit_price.
SummaryFrames ==
    {EmptyFrame,
     parsed_receipts[ReceiptTwo].df,
     parsed_receipts[ReceiptZero].df,
     concat(parsed_receipts[ReceiptOne].df,
            FrameOfRows(<<[item |-> StrV(<<"T", "a", "x">>), qty |-> IntV(2),
                           total |-> FloatV(237 * Scale),
                           unit_price |-> Div(FloatV(237 * Scale),
                                              IntV(2))]>>)),
     FrameOfRows(<<[item |-> StrV(<<"T", "a", "x">>), qty |-> IntV(1),
                    total |-> FloatV(237 * Scale)]>>)}

\* The people lists it is called with, the empty list among them.
SummaryPeople ==
    {<<>>, <<<<"A", "l">>>>, <<<<"A", "l">>, Unassigned>>, <<ColUnitPrice>>}

\* The order dates it is called with.
SummaryDates == {DateNotFound, <<"O", "c", "t", " ", "5", ",", " ", "2", "0",
                                 "2", "3">>}

\* The assignments it is called with: the empty dict, the tally of a board
\* with every card unassigned, and that of a board whose first container
\* holds every card.
SummaryCounts(frame, people) ==
    {<<>>,
     Tally(frame, people, BuildContainers(people, CardsFrom(frame, 0))),
     Tally(frame, people,
           [k \in 1..Len(people) |->
               [header |-> people[k],
                items |-> IF k = 1 THEN CardsFrom(frame, 0) ELSE <<>>]])}

SummaryInit ==
    /\ df \in SummaryFrames
    /\ members \in SummaryPeople
    /\ assignments \in SummaryCounts(df, members)
    /\ order_date \in SummaryDates
    /\ new_member = <<>>
    /\ extra_items = <<>>
    /\ uploaded_file = NoFile
    /\ kanban = NoKanban
    /\ stage = "kanban"
    /\ unit_cards = <<>>
    /\ summary = NoSummary

\* build_summary(df, assignments, people, order_date) is called and what it
\* returns, or that it raised, is kept.
CallBuildSummary ==
    /\ ~summary.shown
    /\ \E built \in {build_summary(df, assignments, members, order_date)} :
           summary' = [shown |-> TRUE, ok |-> built.ok,
                       output |-> built.output]
    /\ stage' = "summary"
    /\ UNCHANGED <<members, new_member, extra_items, uploaded_file, kanban, df,
                   order_date, unit_cards, assignments>>

SummarySpec == SummaryInit /\ [][CallBuildSummary]_vars

\* ---------------------------------------------------------------- properties

\* The stages at which the item table, the cards and the Kanban are drawn.
Drawn == {"kanban", "summary"}

\* The row index and the ordinal a card's text carries before its colon.
CardIndex(card) == int(SplitFirst(SplitFirst(card, ":"), "_"))

CardOrdinal(card) ==
    LET id == SplitFirst(card, ":")
    IN  int(SubSeq(id, Len(SplitFirst(id, "_")) + 2, Len(id)))

\* How many cards of row idx a container's items hold.
CountCards(items, idx) ==
    Cardinality({j \in 1..Len(items) : CardIndex(items[j]) = idx})

RECURSIVE SumSeq(_)
SumSeq(s) == IF s = <<>> THEN 0 ELSE Head(s) + SumSeq(Tail(s))

\* The quantity of row idx of the item table.
QtyOf(idx) == df.cols[ColQty][idx + 1].v

\* The tallied units of row idx over every member.
AssignedUnits(idx) ==
    SumSeq([k \in 1..Len(members) |-> assignments[idx][members[k]]])

\* The cards of row idx left in the Unassigned container, the last one.
UnassignedUnits(idx) ==
    CountCards(kanban.value[Len(kanban.value)].items, idx)

\* The text of the grand total line after its dollar sign.
GrandTotalOf(output) ==
    SubSeq(output, Max({j \in 1..Len(output) : output[j] = "$"}) + 1,
           Len(output) - 1)

\* A member's total: over the rows with units tallied for the member, the
\* units times the row's unit price.
PersonTotal(person) ==
    SeriesSum([i \in 1..df.n |->
                  IF assignments[i - 1][person] > 0
                  THEN Mul(IntV(assignments[i - 1][person]),
                           df.cols[ColUnitPrice][i])
                  ELSE IntV(0)])

\* C1: once the summary is computed with no card left in the Unassigned
\* container, its grand total is the sum of the total column of the item
\* table, to the cent.
C1_Reconciliation ==
    (/\ stage = "summary"
     /\ summary.ok
     /\ kanban.value[Len(kanban.value)].items = <<>>)
        => GrandTotalOf(summary.output)
               = Format2f(SeriesSum(df.cols[ColTotal]))

\* C2: whenever the Kanban is drawn, for every row of the item table the
\* units tallied over the members are at most the row's quantity, and with
\* the row's cards left in the Unassigned container they make the quantity.
C2_TallyConserved ==
    stage \in Drawn =>
        \A idx \in 0..(df.n - 1) :
            /\ AssignedUnits(idx) <= QtyOf(idx)
            /\ AssignedUnits(idx) + UnassignedUnits(idx) = QtyOf(idx)

\* C3: every row of the item table has a quantity of at least 1.
C3_NoZeroQuantity ==
    \A i \in 1..df.n : df.cols[ColQty][i].v >= 1

\* C4: the grand total of a computed summary is the sum over the members of
\* the member's total, units tallied times unit price summed over the rows.
C4_GrandTotalIsSumOfPersons ==
    (stage = "summary" /\ summary.ok)
        => GrandTotalOf(summary.output)
               = Format2f(SeriesSum([k \in 1..Len(members) |->
                                        PersonTotal(members[k])]))

\* C5: whenever the Kanban is drawn, for every member and every row the
\* tally is the number of the row's cards in the member's container.
C5_TallyMatchesContainers ==
    stage \in Drawn =>
        \A k \in 1..Len(members) : \A idx \in 0..(df.n - 1) :
            assignments[idx][members[k]]
                = CountCards(kanban.value[k].items, idx)

\* C6: from one drawn item table to the next, every row stays at its index
\* with its item, quantity and total; rows are only added after it.
C6_TableAppendOnly ==
    [][(stage \in Drawn /\ stage' \in Drawn)
           => /\ df.n <= df'.n
              /\ \A c \in {ColItem, ColQty, ColTotal} : \A i \in 1..df.n :
                     df'.cols[c][i] = df.cols[c][i]]_vars

\* C7: while the uploaded receipt parses to an empty table, main() has
\* stopped at the empty table: no cards, no Kanban, no tally, no summary,
\* whatever the extra items of the session.
C7_EmptyParseStops ==
    (uploaded_file.present /\ IsEmpty(parse_receipt(uploaded_file.pages).df))
        => /\ stage = "no_items"
           /\ IsEmpty(df)
           /\ unit_cards = <<>>
           /\ kanban = NoKanban
           /\ assignments = <<>>
           /\ ~summary.shown

\* An empty parse met with an extra item and a member in the session.
C7_Witness ==
    /\ uploaded_file.present
    /\ IsEmpty(parse_receipt(uploaded_file.pages).df)
    /\ extra_items # <<>>
    /\ members # <<>>
    /\ stage = "no_items"

\* C8: build_summary called with no people does not raise, and returns the
\* order date line followed by nothing but the grand total line of 0.00.
C8_EmptyPeopleSummary ==
    (summary.shown /\ members = <<>>)
        => /\ summary.ok
           /\ summary.output
                  = order_date \o <<":", "\n", "\n">> \o GrandTotalLabel
                    \o <<"0", ".", "0", "0", "\n">>

\* build_summary has returned for no people, a table with rows and the
\* empty assignments.
C8_Witness ==
    /\ summary.shown
    /\ members = <<>>
    /\ df.n > 0
    /\ assignments = <<>>
    /\ summary.ok

\* The units (idx, 0) .. (idx, q - 1) of the rows idx.. of a table, in order.
RECURSIVE ExpectedUnits(_, _)
ExpectedUnits(frame, idx) ==
    IF idx >= frame.n THEN <<>>
    ELSE [j \in 1..frame.cols[ColQty][idx + 1].v |-> <<idx, j - 1>>]
         \o ExpectedUnits(frame, idx + 1)

\* C9: the unit cards drawn carry, in order, the identifiers (i, 0) ..
\* (i, q - 1) of each row i of quantity q, rows in table order, and no two
\* cards are the same.
C9_UnitExpansion ==
    stage \in Drawn =>
        /\ [k \in 1..Len(unit_cards) |->
               <<CardIndex(unit_cards[k]), CardOrdinal(unit_cards[k])>>]
               = ExpectedUnits(df, 0)
        /\ \A j, k \in 1..Len(unit_cards) :
               unit_cards[j] = unit_cards[k] => j = k

\* Cards drawn for a table of two rows, one of them of quantity 2.
C9_Witness ==
    /\ stage \in Drawn
    /\ df.n >= 2
    /\ Len(unit_cards) >= 3
    /\ \E i \in 1..df.n : df.cols[ColQty][i].v >= 2

\* No name twice, and in every name a character that is not whitespace.
MembersClean(names) ==
    /\ \A j, k \in 1..Len(names) : names[j] = names[k] => j = k
    /\ \A k \in 1..Len(names) :
           \E j \in 1..Len(names[k]) : names[k][j] \notin Whitespace

\* C10: every step leaves the members without a duplicate or a blank name,
\* keeps the members there were at their positions with at most one name
\* appended, and leaves the member box empty; no step that changes the
\* members is the entering of a blank name or of a member's name.
C10_AddMember ==
    [][/\ MembersClean(members')
       /\ Len(members) <= Len(members')
       /\ Len(members') <= Len(members) + 1
       /\ SubSeq(members', 1, Len(members)) = members
       /\ new_member' = <<>>
       /\ \A typed \in TypedNames :
              (/\ members' # members
               /\ \/ \A j \in 1..Len(typed) : typed[j] \in Whitespace
                  \/ \E k \in 1..Len(members) : members[k] = strip(typed))
                  => ~EnterMemberName(typed)]_vars

\* Two members entered, the second after the first, and the box empty.
C10_Witness ==
    /\ Len(members) = 2
    /\ members[1] = <<"A", "l">>
    /\ new_member = <<>>

====
